---- MODULE Spec2Model ----
(***************************************************************************)
(* Muqaddas Network: the React web app (frontend/src/App.js), the donation *)
(* ledger behind POST /api/donations and the VIP wallet backend described  *)
(* by the endpoint log (test_result.md).                                   *)
(*                                                                         *)
(* Money on the donation form is counted in paise (1/100 rupee), and the    *)
(* shares it shows are the paise that toFixed(2) prints.                   *)
(***************************************************************************)
EXTENDS Integers, Sequences, FiniteSets, Bags, TLC

VARIABLES
    localStorage,     \* window.localStorage: a function on the keys that are set
    user,             \* AuthProvider: user
    loading,          \* AuthProvider: loading
    route,            \* BrowserRouter: current location
    loginError,       \* LoginPage: error
    loginLoading,     \* LoginPage: loading
    registerError,    \* RegisterPage: error
    registerLoading,  \* RegisterPage: loading
    amount,           \* DonatePage: amount, <<>> for "" and <<p>> for p paise
    donorName,        \* DonatePage: donorName
    submitted,        \* DonatePage: submitted
    donateLoading,    \* DonatePage: loading
    landingStats,     \* LandingPage: stats
    platformFees,     \* LandingPage: platformFees
    dashboardStats,   \* DashboardPage: stats
    donations,        \* DashboardPage: donations
    familyEquity,     \* DashboardPage: familyEquity
    network,          \* axios requests in flight, a bag of requests
    ledger,           \* backend: the donation ledger behind /api/stats
    lastAuth,         \* history: the last call of login / logout, or "none"
    wallet,           \* backend: the user's wallet document
    vip,              \* backend: the user's VIP status document
    vipLevels,        \* backend: the configured VIP level table
    transactions,     \* backend: the user's wallet transactions
    notifications,    \* backend: the user's notifications
    lastResponse,     \* backend: the last wallet / VIP response sent
    frontend,         \* the frontend that runs: "web", "education" or "agency"
    courses,          \* EducationScreen: courses
    mindGames,        \* EducationScreen: mindGames
    profile,          \* EducationScreen: profile
    learningLevels,   \* EducationScreen: learningLevels
    eduLoading,       \* EducationScreen: loading
    eduRefreshing,    \* EducationScreen: refreshing
    selectedTab,      \* EducationScreen: selectedTab
    selectedCourse,   \* EducationScreen: selectedCourse
    selectedGame,     \* EducationScreen: selectedGame
    enrolling,        \* EducationScreen: enrolling
    playing,          \* EducationScreen: playing
    gameResult,       \* EducationScreen: gameResult
    eduNetwork,       \* EducationScreen: the awaits in flight
    eduBackend,       \* backend: the user's education documents
    agencyStatus,     \* AgencyScreen: agencyStatus
    agencyRefreshing, \* AgencyScreen: refreshing
    applyModalVisible, \* AgencyScreen: applyModalVisible
    referralCode,     \* AgencyScreen: referralCode, a sequence of characters
    applying,         \* AgencyScreen: applying
    agencyNetwork,    \* AgencyScreen: the awaits in flight
    agencyBackend,    \* backend: the user's agency document
    lastAlert         \* the last alert(...) / Alert.alert(...) shown, "" for none

webVars == <<localStorage, user, loading, route, loginError, loginLoading,
             registerError, registerLoading, amount, donorName, submitted,
             donateLoading, landingStats, platformFees, dashboardStats,
             donations, familyEquity, network, ledger, lastAuth>>

walletVars == <<wallet, vip, vipLevels, transactions, notifications, lastResponse>>

eduVars == <<courses, mindGames, profile, learningLevels, eduLoading, eduRefreshing,
             selectedTab, selectedCourse, selectedGame, enrolling, playing,
             gameResult, eduNetwork, eduBackend>>

agencyVars == <<agencyStatus, agencyRefreshing, applyModalVisible, referralCode,
                applying, agencyNetwork, agencyBackend>>

mobileVars == <<frontend, eduVars, agencyVars, lastAlert>>

vars == <<webVars, walletVars, mobileVars>>

----------------------------------------------------------------------------
(* Bounds *)

MaxAmount == 260        \* largest amount typed into the form, in paise
MaxInFlight == 2        \* requests in flight at once
MaxDonations == 2       \* donations recorded by the ledger
MaxDeposits == 3        \* deposits made into the wallet
MaxSubscriptions == 2   \* successful VIP subscriptions
MaxPlayed == 2          \* mind games played

----------------------------------------------------------------------------
(* Values *)

null == [null |-> TRUE]

Tokens == {"jwt-1", "jwt-2"}

UserObjects == { [name |-> "Amina", phone |-> "+91 1"] }

Routes == {"/", "/login", "/register", "/donate", "/dashboard"}

\* JSON.stringify / JSON.parse of a user object: the text lists the fields
JSONStringify(userData) == <<"{", userData.name, userData.phone, "}">>

JSONParse(text) == [name |-> text[2], phone |-> text[3]]

\* Storage.setItem / removeItem / getItem on a function over the set keys
setItem(ls, key, value) ==
    [k \in (DOMAIN ls) \cup {key} |-> IF k = key THEN value ELSE ls[k]]

removeItem(ls, key) == [k \in (DOMAIN ls) \ {key} |-> ls[k]]

hasItem(ls, key) == key \in DOMAIN ls

\* the token as getItem("token") returns it: "" stands for JS null here,
\* both are falsy in `if (token)`
getToken(ls) == IF hasItem(ls, "token") THEN ls["token"] ELSE ""

EmptyStorage == [k \in {} |-> ""]

StorageStates ==
    { EmptyStorage }
    \cup { setItem(EmptyStorage, "token", t) : t \in Tokens }
    \cup { setItem(EmptyStorage, "user", JSONStringify(u)) : u \in UserObjects }
    \cup { setItem(setItem(EmptyStorage, "token", t), "user", JSONStringify(u)) :
             t \in Tokens, u \in UserObjects }

----------------------------------------------------------------------------
(* DonatePage: the "Your Impact" breakdown *)

CHARITY_PER_DONATION_doubled == 2 * 5    \* a ₹10 contribution

CHARITY_PER_DONATION == 5    \* <span>₹5</span>, in rupees
VIP_RATE == 2                \* 0.02, in percent
EQUITY_RATE == 60            \* 0.60, in percent
EQUITY_LOCK_PERCENT == 60    \* LandingPage: <span className="equity-percent">60%</span>

\* amount || 0: the empty string is falsy, every other string ("0" too) is kept
OrZero_one(field) == IF field = <<>> THEN <<100>> ELSE field

OrZero(field) == IF field = <<>> THEN <<0>> ELSE field

\* parseFloat of a decimal string with two fraction digits, in paise
parseFloat(field) == field[1]

\* x.toFixed(2) of a product x of paise and a percentage, x in 1/100 paise; the
\* result in paise.  toFixed rounds the double to the nearest hundredth; where
\* the exact product lies half way, the double nearest to it lies on either
\* side (0.25 * 0.02 prints "0.01", 0.75 * 0.02 prints "0.01"), so both
\* neighbours are outcomes.
toFixed2(x) ==
    LET q == x \div 100
        r == x % 100
    IN  IF r < 50 THEN {q} ELSE IF r > 50 THEN {q + 1} ELSE {q, q + 1}

\* <span>₹5</span>, in rupees, whatever the amount field holds
charityContribution_percent(field) == (parseFloat(OrZero(field)) * 5) \div 100

charityContribution(field) == CHARITY_PER_DONATION

\* (parseFloat(amount || 0) * 0.02).toFixed(2), in paise
vipGiftIncome(field) == toFixed2(parseFloat(OrZero(field)) * VIP_RATE)

\* (parseFloat(amount || 0) * 0.60).toFixed(2), in paise
familyEquityShare_afterDonation(field) ==
    toFixed2(parseFloat(OrZero(field)) * (IF ledger.count > 0 THEN 40 ELSE EQUITY_RATE))

familyEquityShare(field) == toFixed2(parseFloat(OrZero(field)) * EQUITY_RATE)

\* what DonatePage renders
DonatePageView_noLoginPrompt ==
    IF submitted
    THEN [screen |-> "donation-success", charity |-> CHARITY_PER_DONATION,
          vipPercent |-> VIP_RATE, equityPercent |-> EQUITY_RATE]
    ELSE [screen |-> "donation-form",
          charity |-> charityContribution(amount),
          vip |-> vipGiftIncome(amount),
          equity |-> familyEquityShare(amount),
          disabled |-> donateLoading]

DonatePageView ==
    IF submitted
    THEN [screen |-> "donation-success", charity |-> CHARITY_PER_DONATION,
          vipPercent |-> VIP_RATE, equityPercent |-> EQUITY_RATE]
    ELSE IF user = null
    THEN [screen |-> "login-prompt"]
    ELSE [screen |-> "donation-form",
          charity |-> charityContribution(amount),
          vip |-> vipGiftIncome(amount),
          equity |-> familyEquityShare(amount),
          disabled |-> donateLoading]

\* the Family Equity section of LandingPage
LandingPageView ==
    [screen |-> "landing-page", equityFill |-> EQUITY_LOCK_PERCENT,
     equityPercent |-> EQUITY_LOCK_PERCENT, stats |-> landingStats]

\* the form's own validation: required, type="number" min="1" (step 1), and a
\* required donor name
FormValid ==
    /\ amount # <<>>
    /\ parseFloat(amount) >= 100
    /\ parseFloat(amount) % 100 = 0
    /\ donorName # ""

----------------------------------------------------------------------------
(* Routing *)

\* ProtectedRoute, for the auth state (u, ld) of the AuthContext
ProtectedRoute_noUserCheck(children, u, ld) ==
    IF ld THEN [element |-> "Loading..."] ELSE [element |-> children]

ProtectedRoute(children, u, ld) ==
    IF ld THEN [element |-> "Loading..."]
    ELSE IF u = null THEN [element |-> "Navigate", to |-> "/login"]
    ELSE [element |-> children]

\* <Routes>: the element rendered at location r
RouteElementAt(r, u, ld) ==
    CASE r = "/" -> [element |-> "LandingPage"]
      [] r = "/login" -> [element |-> "LoginPage"]
      [] r = "/register" -> [element |-> "RegisterPage"]
      [] r = "/donate" -> [element |-> "DonatePage"]
      [] r = "/dashboard" -> ProtectedRoute("DashboardPage", u, ld)

RouteElement == RouteElementAt(route, user, loading)

\* the links and buttons the current screen offers: Navbar, then the page
NavTargets ==
    {"/"}
    \cup (IF user # null THEN {"/dashboard", "/donate"} ELSE {"/login", "/register"})
    \cup (CASE RouteElement.element = "LandingPage" -> {"/register", "/donate"}
            [] RouteElement.element = "LoginPage" -> {"/register"}
            [] RouteElement.element = "RegisterPage" -> {"/login"}
            [] RouteElement.element = "DashboardPage" -> {"/donate"}
            [] RouteElement.element = "DonatePage" ->
                 (IF submitted THEN {"/dashboard"}
                  ELSE IF user = null THEN {"/login"} ELSE {})
            [] OTHER -> {})

----------------------------------------------------------------------------
(* axios *)

NoAuthorization == <<>>

\* api.interceptors.request: the Authorization header of a request sent while
\* localStorage is ls
Interceptor_fromAuthUser(ls) ==
    IF user # null /\ hasItem(ls, "token") THEN <<"Bearer", ls["token"]>>
    ELSE NoAuthorization

Interceptor(ls) ==
    IF getToken(ls) # "" THEN <<"Bearer", getToken(ls)>> ELSE NoAuthorization

\* a request as the interceptor hands it to the network; live says that the
\* page that sent it is still mounted
Request(kind, ls, body) ==
    [kind |-> kind, Authorization |-> Interceptor(ls), body |-> body, live |-> TRUE]

Sent(net, req) == net (+) SetToBag({req})

Without(net, req) == net (-) SetToBag({req})

\* the requests left when the page that sent them unmounts: a fetch whose
\* setters no longer do anything is dropped, a submit stays, not live
Unmounted(net) ==
    LET kept == {r \in BagToSet(net) : r.kind \notin {"landing", "dashboard"}}
        dead == {[r EXCEPT !.live = FALSE] : r \in kept}
    IN  [d \in dead |-> CopiesIn(d, net) + CopiesIn([d EXCEPT !.live = TRUE], net)]

\* the useEffect fetch of the page that mounts
MountRequests(element, ls, net) ==
    CASE element = "LandingPage" -> Sent(net, Request("landing", ls, <<>>))
      [] element = "DashboardPage" -> Sent(net, Request("dashboard", ls, <<>>))
      [] OTHER -> net

\* the requests of a kind in flight
Pending(kind) == {r \in BagToSet(network) : r.kind = kind}

InFlight(kind) ==
    BagCardinality([r \in Pending(kind) |-> network[r]])

\* err.response?.data?.detail || fallback
ErrorMessage_noFallback(err, fallback) == err.detail

ErrorMessage(err, fallback) == IF err.detail # "" THEN err.detail ELSE fallback

Errors == { [detail |-> "Invalid credentials"], [detail |-> ""] }

----------------------------------------------------------------------------
(* AuthProvider *)

\* login(token, userData) on the pair of localStorage and the auth user
login(st, token, userData) ==
    [ls |-> setItem(setItem(st.ls, "token", token), "user", JSONStringify(userData)),
     user |-> userData]

\* logout()
logout_keepsUser(st) == [ls |-> removeItem(st.ls, "token"), user |-> null]

logout(st) ==
    [ls |-> removeItem(removeItem(st.ls, "token"), "user"), user |-> null]

AuthState == [ls |-> localStorage, user |-> user]

----------------------------------------------------------------------------
(* Backend: the donation ledger (POST /api/donations, GET /api/stats) *)

EmptyLedger ==
    [count |-> 0, total_donations |-> 0, charity_fund |-> 0,
     vip_income |-> 0, family_equity |-> 0]

\* a donation of rupees recorded: three derived entries, vip_income and
\* family_equity in paise
RecordDonation(l, rupees) ==
    [count |-> l.count + 1,
     total_donations |-> l.total_donations + rupees,
     charity_fund |-> l.charity_fund + CHARITY_PER_DONATION,
     vip_income |-> l.vip_income + rupees * VIP_RATE,
     family_equity |-> l.family_equity + rupees * EQUITY_RATE]

FamilyEquityInfo == [equity_percent |-> EQUITY_LOCK_PERCENT, status |-> "PERMANENT LOCK"]

PlatformFeesInfo == [rule |-> "platform-fees"]

----------------------------------------------------------------------------
(* The web app *)

WebAmounts == {<<>>, <<55>>, <<100>>, <<200>>}

DonorNames == {"", "Amina"}

\* the state every page component starts in; DonatePage reads the auth user u
PagesMounted(u) ==
    /\ loginError' = ""
    /\ loginLoading' = FALSE
    /\ registerError' = ""
    /\ registerLoading' = FALSE
    /\ amount' = <<>>
    /\ donorName' = (IF u = null THEN "" ELSE u.name)
    /\ submitted' = FALSE
    /\ donateLoading' = FALSE
    /\ landingStats' = null
    /\ platformFees' = null
    /\ dashboardStats' = null
    /\ donations' = <<>>
    /\ familyEquity' = null

pageVars == <<loginError, loginLoading, registerError, registerLoading, amount,
              donorName, submitted, donateLoading, landingStats, platformFees,
              dashboardStats, donations, familyEquity>>

\* React re-renders for location r1 and auth state (u1, ld1): when another
\* element is rendered the old page unmounts and the new one mounts and runs
\* its effect; net1 are the requests in flight before that
Rerender(r1, u1, ld1, ls1, net1) ==
    LET e0 == RouteElement.element
        e1 == RouteElementAt(r1, u1, ld1).element
    IN  IF e0 = e1
        THEN /\ UNCHANGED pageVars
             /\ network' = net1
        ELSE /\ PagesMounted(u1)
             /\ network' = MountRequests(e1, ls1, Unmounted(net1))

WebInit ==
    /\ localStorage \in StorageStates
    /\ user = null
    /\ loading = TRUE
    /\ route \in Routes
    /\ loginError = ""
    /\ loginLoading = FALSE
    /\ registerError = ""
    /\ registerLoading = FALSE
    /\ amount = <<>>
    /\ donorName = ""
    /\ submitted = FALSE
    /\ donateLoading = FALSE
    /\ landingStats = null
    /\ platformFees = null
    /\ dashboardStats = null
    /\ donations = <<>>
    /\ familyEquity = null
    /\ lastAuth = "none"
    /\ ledger = EmptyLedger
    /\ network = MountRequests(RouteElementAt(route, null, TRUE).element,
                               localStorage, EmptyBag)

\* the browser loads location r: every component starts again, localStorage stays
Reload(r) ==
    /\ user' = null
    /\ loading' = TRUE
    /\ route' = r
    /\ PagesMounted(null)
    /\ network' = MountRequests(RouteElementAt(r, null, TRUE).element,
                                localStorage, EmptyBag)
    /\ UNCHANGED <<localStorage, ledger, lastAuth>>
    /\ frontend = "web"
    /\ UNCHANGED <<walletVars, mobileVars>>

\* AuthProvider's useEffect
Mount_savedUserOnly ==
    /\ loading
    /\ LET u1 == IF hasItem(localStorage, "user")
                 THEN JSONParse(localStorage["user"]) ELSE user
       IN  /\ user' = u1
           /\ loading' = FALSE
           /\ Rerender(route, u1, FALSE, localStorage, network)
    /\ BagCardinality(network') <= MaxInFlight
    /\ UNCHANGED <<localStorage, route, ledger, lastAuth>>
    /\ frontend = "web"
    /\ UNCHANGED <<walletVars, mobileVars>>

Mount ==
    /\ loading
    /\ LET token == getToken(localStorage)
           u1 == IF token # "" /\ hasItem(localStorage, "user")
                 THEN JSONParse(localStorage["user"]) ELSE user
       IN  /\ user' = u1
           /\ loading' = FALSE
           /\ Rerender(route, u1, FALSE, localStorage, network)
    /\ BagCardinality(network') <= MaxInFlight
    /\ UNCHANGED <<localStorage, route, ledger, lastAuth>>
    /\ frontend = "web"
    /\ UNCHANGED <<walletVars, mobileVars>>

\* navigate(r) from a link or button of the current screen
Navigate(r) ==
    /\ ~loading
    /\ r \in NavTargets
    /\ r # route
    /\ route' = r
    /\ Rerender(r, user, loading, localStorage, network)
    /\ BagCardinality(network') <= MaxInFlight
    /\ UNCHANGED <<localStorage, user, loading, ledger, lastAuth>>
    /\ frontend = "web"
    /\ UNCHANGED <<walletVars, mobileVars>>

\* <Navigate to="/login" /> rendered by ProtectedRoute
Redirect ==
    /\ RouteElement.element = "Navigate"
    /\ route' = RouteElement.to
    /\ Rerender(RouteElement.to, user, loading, localStorage, network)
    /\ UNCHANGED <<localStorage, user, loading, ledger, lastAuth>>
    /\ frontend = "web"
    /\ UNCHANGED <<walletVars, mobileVars>>

\* the Navbar's Logout button
Logout ==
    /\ ~loading
    /\ user # null
    /\ LET st == logout(AuthState)
       IN  /\ localStorage' = st.ls
           /\ user' = st.user
           /\ lastAuth' = "logout"
           /\ Rerender(route, st.user, loading, st.ls, network)
    /\ UNCHANGED <<loading, route, ledger>>
    /\ frontend = "web"
    /\ UNCHANGED <<walletVars, mobileVars>>

----------------------------------------------------------------------------
(* LoginPage and RegisterPage *)

\* LoginPage handleSubmit, up to the await
LoginSubmit ==
    /\ ~loading
    /\ RouteElement.element = "LoginPage"
    /\ ~loginLoading
    /\ BagCardinality(network) < MaxInFlight
    /\ loginError' = ""
    /\ loginLoading' = TRUE
    /\ network' = Sent(network, Request("login", localStorage, <<>>))
    /\ UNCHANGED <<localStorage, user, loading, route, registerError, registerLoading,
                   amount, donorName, submitted, donateLoading, landingStats,
                   platformFees, dashboardStats, donations, familyEquity, ledger,
                   lastAuth>>
    /\ frontend = "web"
    /\ UNCHANGED <<walletVars, mobileVars>>

\* RegisterPage handleSubmit, up to the await
RegisterSubmit ==
    /\ ~loading
    /\ RouteElement.element = "RegisterPage"
    /\ ~registerLoading
    /\ BagCardinality(network) < MaxInFlight
    /\ registerError' = ""
    /\ registerLoading' = TRUE
    /\ network' = Sent(network, Request("register", localStorage, <<>>))
    /\ UNCHANGED <<localStorage, user, loading, route, loginError, loginLoading,
                   amount, donorName, submitted, donateLoading, landingStats,
                   platformFees, dashboardStats, donations, familyEquity, ledger,
                   lastAuth>>
    /\ frontend = "web"
    /\ UNCHANGED <<walletVars, mobileVars>>

\* the request resolves with (access_token, user): login(...), then
\* navigate("/dashboard"); the finally block's setLoading(false) reaches a page
\* that the navigation has unmounted.  Both forms share these lines.
AuthSubmitOk(req, token, userData) ==
    /\ req \in Pending("login") \cup Pending("register")
    /\ LET st == login(AuthState, token, userData)
       IN  /\ localStorage' = st.ls
           /\ user' = st.user
           /\ lastAuth' = "login"
           /\ route' = "/dashboard"
           /\ Rerender("/dashboard", st.user, loading, st.ls,
                       Without(network, req))
    /\ BagCardinality(network') <= MaxInFlight
    /\ UNCHANGED <<loading, ledger>>
    /\ frontend = "web"
    /\ UNCHANGED <<walletVars, mobileVars>>

\* the login request rejects: setError(detail || "Login failed"), setLoading(false)
LoginFail(req, err) ==
    /\ req \in Pending("login")
    /\ network' = Without(network, req)
    /\ IF req.live
       THEN /\ loginError' = ErrorMessage(err, "Login failed")
            /\ loginLoading' = FALSE
       ELSE UNCHANGED <<loginError, loginLoading>>
    /\ UNCHANGED <<localStorage, user, loading, route, registerError, registerLoading,
                   amount, donorName, submitted, donateLoading, landingStats,
                   platformFees, dashboardStats, donations, familyEquity, ledger,
                   lastAuth>>
    /\ frontend = "web"
    /\ UNCHANGED <<walletVars, mobileVars>>

\* the register request rejects
RegisterFail(req, err) ==
    /\ req \in Pending("register")
    /\ network' = Without(network, req)
    /\ IF req.live
       THEN /\ registerError' = ErrorMessage(err, "Registration failed")
            /\ registerLoading' = FALSE
       ELSE UNCHANGED <<registerError, registerLoading>>
    /\ UNCHANGED <<localStorage, user, loading, route, loginError, loginLoading,
                   amount, donorName, submitted, donateLoading, landingStats,
                   platformFees, dashboardStats, donations, familyEquity, ledger,
                   lastAuth>>
    /\ frontend = "web"
    /\ UNCHANGED <<walletVars, mobileVars>>

----------------------------------------------------------------------------
(* DonatePage *)

DonateFormShown ==
    RouteElement.element = "DonatePage" /\ DonatePageView.screen = "donation-form"

\* onChange of the amount input
SetAmount(v) ==
    /\ ~loading
    /\ DonateFormShown
    /\ amount' = v
    /\ UNCHANGED <<localStorage, user, loading, route, loginError, loginLoading,
                   registerError, registerLoading, donorName, submitted,
                   donateLoading, landingStats, platformFees, dashboardStats,
                   donations, familyEquity, network, ledger, lastAuth>>
    /\ frontend = "web"
    /\ UNCHANGED <<walletVars, mobileVars>>

\* onChange of the donor name input
SetDonorName(v) ==
    /\ ~loading
    /\ DonateFormShown
    /\ donorName' = v
    /\ UNCHANGED <<localStorage, user, loading, route, loginError, loginLoading,
                   registerError, registerLoading, amount, submitted,
                   donateLoading, landingStats, platformFees, dashboardStats,
                   donations, familyEquity, network, ledger, lastAuth>>
    /\ frontend = "web"
    /\ UNCHANGED <<walletVars, mobileVars>>

\* handleSubmit, up to the await: the form is submitted when it is valid and
\* its button is not disabled
DonateSubmit ==
    /\ ~loading
    /\ DonateFormShown
    /\ ~DonatePageView.disabled
    /\ FormValid
    /\ IF user = null
       THEN /\ route' = "/login"
            /\ Rerender("/login", user, loading, localStorage, network)
            /\ UNCHANGED <<localStorage, user, loading, ledger, lastAuth>>
       ELSE /\ BagCardinality(network) < MaxInFlight
            /\ ledger.count + InFlight("donate") < MaxDonations
            /\ donateLoading' = TRUE
            /\ network' = Sent(network,
                   Request("donate", localStorage,
                           [amount |-> parseFloat(amount) \div 100]))
            /\ UNCHANGED <<localStorage, user, loading, route, loginError,
                           loginLoading, registerError, registerLoading, amount,
                           donorName, submitted, landingStats, platformFees,
                           dashboardStats, donations, familyEquity, ledger, lastAuth>>
    /\ frontend = "web"
    /\ UNCHANGED <<walletVars, mobileVars>>

\* the backend records the donation and the request resolves:
\* setSubmitted(true), setLoading(false)
DonateOk(req) ==
    /\ req \in Pending("donate")
    /\ ledger' = RecordDonation(ledger, req.body.amount)
    /\ network' = Without(network, req)
    /\ IF req.live
       THEN /\ submitted' = TRUE
            /\ donateLoading' = FALSE
       ELSE UNCHANGED <<submitted, donateLoading>>
    /\ UNCHANGED <<localStorage, user, loading, route, loginError, loginLoading,
                   registerError, registerLoading, amount, donorName, landingStats,
                   platformFees, dashboardStats, donations, familyEquity, lastAuth>>
    /\ frontend = "web"
    /\ UNCHANGED <<walletVars, mobileVars>>

\* the request rejects: console.error, setLoading(false)
DonateFail_setsSubmitted(req) ==
    /\ req \in Pending("donate")
    /\ network' = Without(network, req)
    /\ IF req.live
       THEN /\ submitted' = TRUE
            /\ donateLoading' = FALSE
       ELSE UNCHANGED <<submitted, donateLoading>>
    /\ UNCHANGED <<localStorage, user, loading, route, loginError, loginLoading,
                   registerError, registerLoading, amount, donorName,
                   landingStats, platformFees, dashboardStats, donations,
                   familyEquity, ledger, lastAuth>>
    /\ frontend = "web"
    /\ UNCHANGED <<walletVars, mobileVars>>

DonateFail(req) ==
    /\ req \in Pending("donate")
    /\ network' = Without(network, req)
    /\ IF req.live
       THEN donateLoading' = FALSE
       ELSE UNCHANGED donateLoading
    /\ UNCHANGED <<localStorage, user, loading, route, loginError, loginLoading,
                   registerError, registerLoading, amount, donorName, submitted,
                   landingStats, platformFees, dashboardStats, donations,
                   familyEquity, ledger, lastAuth>>
    /\ frontend = "web"
    /\ UNCHANGED <<walletVars, mobileVars>>

----------------------------------------------------------------------------
(* LandingPage and DashboardPage: the fetch on mount *)

\* Promise.all of GET /stats/public and GET /platform-fees resolves
LandingFetchOk(req) ==
    /\ ~loading
    /\ req \in Pending("landing")
    /\ network' = Without(network, req)
    /\ landingStats' = ledger
    /\ platformFees' = PlatformFeesInfo
    /\ UNCHANGED <<localStorage, user, loading, route, loginError, loginLoading,
                   registerError, registerLoading, amount, donorName, submitted,
                   donateLoading, dashboardStats, donations, familyEquity, ledger,
                   lastAuth>>
    /\ frontend = "web"
    /\ UNCHANGED <<walletVars, mobileVars>>

\* Promise.all of GET /stats, GET /donations and GET /family-equity resolves
DashboardFetchOk(req) ==
    /\ ~loading
    /\ req \in Pending("dashboard")
    /\ network' = Without(network, req)
    /\ dashboardStats' = ledger
    /\ donations' = [n \in 1..ledger.count |-> "donation"]
    /\ familyEquity' = FamilyEquityInfo
    /\ UNCHANGED <<localStorage, user, loading, route, loginError, loginLoading,
                   registerError, registerLoading, amount, donorName, submitted,
                   donateLoading, landingStats, platformFees, ledger, lastAuth>>
    /\ frontend = "web"
    /\ UNCHANGED <<walletVars, mobileVars>>

\* the requests of a page's Promise.all
FetchParts(kind) ==
    IF kind = "landing" THEN {"/stats/public", "/platform-fees"}
    ELSE {"/stats", "/donations", "/family-equity"}

\* the requests in failed, one at least, of a page's Promise.all reject:
\* console.error
FetchFail_partial(req, failed) ==
    /\ ~loading
    /\ req \in Pending("landing") \cup Pending("dashboard")
    /\ network' = Without(network, req)
    /\ landingStats' = (IF req.kind = "landing" /\ "/stats/public" \notin failed
                        THEN ledger ELSE landingStats)
    /\ platformFees' = (IF req.kind = "landing" /\ "/platform-fees" \notin failed
                        THEN PlatformFeesInfo ELSE platformFees)
    /\ dashboardStats' = (IF req.kind = "dashboard" /\ "/stats" \notin failed
                          THEN ledger ELSE dashboardStats)
    /\ donations' = (IF req.kind = "dashboard" /\ "/donations" \notin failed
                     THEN [n \in 1..ledger.count |-> "donation"] ELSE donations)
    /\ familyEquity' = (IF req.kind = "dashboard" /\ "/family-equity" \notin failed
                        THEN FamilyEquityInfo ELSE familyEquity)
    /\ UNCHANGED <<localStorage, user, loading, route, loginError, loginLoading,
                   registerError, registerLoading, amount, donorName, submitted,
                   donateLoading, ledger, lastAuth>>
    /\ frontend = "web"
    /\ UNCHANGED <<walletVars, mobileVars>>

FetchFail(req, failed) ==
    /\ ~loading
    /\ req \in Pending("landing") \cup Pending("dashboard")
    /\ network' = Without(network, req)
    /\ UNCHANGED <<localStorage, user, loading, route, pageVars, ledger, lastAuth>>
    /\ frontend = "web"
    /\ UNCHANGED <<walletVars, mobileVars>>

----------------------------------------------------------------------------
(* Backend: the VIP wallet, one user's documents *)

Levels == 0..5    \* Basic, Bronze, Silver, Gold, Platinum, Diamond

LevelNames == <<"Basic", "Bronze", "Silver", "Gold", "Platinum", "Diamond">>

\* a level table: the fee and the recharge requirement of each level
LevelTable(fees, requirements) ==
    [l \in Levels |-> [name |-> LevelNames[l + 1], fee |-> fees[l + 1],
                       recharge_requirement |-> requirements[l + 1]]]

\* the configurations the model runs with: Bronze costs 99 coins and is open
\* to a user who has recharged 500
LevelConfigs ==
    { LevelTable(<<0, 99, 299, 599, 999, 1999>>, <<0, 500, 1000, 1500, 3000, 5000>>),
      LevelTable(<<0, 99, 199, 499, 999, 1999>>, <<0, 100, 600, 1100, 2500, 5000>>) }

DepositAmounts == {100, 500}

InitialWallet ==
    [coins_balance |-> 1500, bonus_balance |-> 100, stars_balance |-> 0,
     withdrawable_balance |-> 0, total_deposited |-> 0]

InitialVip == [vip_level |-> 0, is_active |-> FALSE, total_recharged |-> 0]

\* a tier is unlocked once the recharge total has reached its requirement
Unlocked(levels, total, l) == total >= levels[l].recharge_requirement

\* GET /api/vip/status: the eligible level of a recharge total
EligibleLevel_strict(levels, total) ==
    LET open == {l \in Levels : total > levels[l].recharge_requirement}
    IN  IF open = {} THEN 0 ELSE CHOOSE l \in open : \A k \in open : k <= l

EligibleLevel(levels, total) ==
    LET open == {l \in Levels : Unlocked(levels, total, l)}
    IN  CHOOSE l \in open : \A k \in open : k <= l

\* POST /api/wallet/deposit: the wallet after a deposit of a coins
WalletAfterDeposit_bonus(w, a) ==
    [w EXCEPT !.coins_balance = @ + a, !.bonus_balance = @ + a \div 10,
              !.total_deposited = @ + a]

WalletAfterDeposit(w, a) ==
    [w EXCEPT !.coins_balance = @ + a, !.total_deposited = @ + a]

\* POST /api/vip/subscribe: whether the recharge requirement of level l is met
MeetsRequirement_any(levels, v, l) == TRUE

MeetsRequirement(levels, v, l) == Unlocked(levels, v.total_recharged, l)

Deposits == Cardinality({i \in DOMAIN transactions : transactions[i].type = "deposit"})

Subscriptions ==
    Cardinality({i \in DOMAIN transactions : transactions[i].type = "vip_subscription"})

WalletInit ==
    /\ wallet = InitialWallet
    /\ vip = InitialVip
    /\ vipLevels \in LevelConfigs
    /\ transactions = <<>>
    /\ notifications = <<>>
    /\ lastResponse = [op |-> "none"]

\* POST /api/wallet/deposit
Deposit(a) ==
    /\ Deposits < MaxDeposits
    /\ wallet' = WalletAfterDeposit(wallet, a)
    /\ transactions' = Append(transactions,
                              [type |-> "deposit", amount |-> a, status |-> "completed"])
    /\ vip' = [vip EXCEPT !.total_recharged = @ + a]
    /\ notifications' = Append(notifications, [type |-> "deposit", amount |-> a])
    /\ lastResponse' = [op |-> "deposit", ok |-> TRUE, amount |-> a]
    /\ UNCHANGED <<vipLevels, webVars, mobileVars>>

\* POST /api/vip/subscribe
Subscribe(l) ==
    /\ Subscriptions < MaxSubscriptions
    /\ IF MeetsRequirement(vipLevels, vip, l)
       THEN /\ wallet' = [wallet EXCEPT !.coins_balance = @ - vipLevels[l].fee]
            /\ vip' = [vip EXCEPT !.vip_level = l, !.is_active = TRUE]
            /\ transactions' = Append(transactions,
                   [type |-> "vip_subscription", amount |-> vipLevels[l].fee,
                    status |-> "completed"])
            /\ notifications' = Append(notifications, [type |-> "vip", amount |-> l])
            /\ lastResponse' = [op |-> "subscribe", ok |-> TRUE, level |-> l]
       ELSE /\ lastResponse' = [op |-> "subscribe", ok |-> FALSE, level |-> l]
            /\ UNCHANGED <<wallet, vip, transactions, notifications>>
    /\ UNCHANGED <<vipLevels, webVars, mobileVars>>

\* GET /api/vip/status
GetStatus ==
    /\ lastResponse' = [op |-> "status", vip_level |-> vip.vip_level,
                        is_active |-> vip.is_active,
                        total_recharged |-> vip.total_recharged,
                        eligible_level |-> EligibleLevel(vipLevels, vip.total_recharged)]
    /\ UNCHANGED <<wallet, vip, vipLevels, transactions, notifications, webVars,
                   mobileVars>>

----------------------------------------------------------------------------
(* EducationScreen: frontend/app/(tabs)/education.tsx *)

CourseIds == {"c1"}

GameIds == {"g1"}

ServerErrors == { [detail |-> "Not allowed"], [detail |-> ""] }

\* the backend's education documents of a new user
InitialEducation == [enrolled |-> {}, games_played |-> 0]

\* GET /education/config, /education/courses, /education/mind-games and
\* /education/profile, answered from the backend's documents b
ConfigResponse == [learning_levels |-> {"Beginner", "Scholar"}]

CoursesResponse(b) ==
    { [course_id |-> c, enrollments |-> IF c \in b.enrolled THEN 1 ELSE 0] :
        c \in CourseIds }

GamesResponse == { [game_id |-> g, coins_reward |-> 10] : g \in GameIds }

ProfileResponse(b) ==
    [courses_enrolled |-> Cardinality(b.enrolled), games_played |-> b.games_played]

\* which of the four requests of fetchData's Promise.all are answered
FetchOutcomes == [config : BOOLEAN, courses : BOOLEAN, games : BOOLEAN, profile : BOOLEAN]

\* the four state values fetchData sets
Held ==
    [learningLevels |-> learningLevels, courses |-> courses,
     mindGames |-> mindGames, profile |-> profile]

\* fetchData, from the await on: the profile request has its own catch and
\* yields data null, any other rejection rejects Promise.all and lands in the
\* catch block before a setter has run
fetchData_profileRejects(held, b, ok) ==
    IF ok.config /\ ok.courses /\ ok.games /\ ok.profile
    THEN [learningLevels |-> ConfigResponse.learning_levels,
          courses |-> CoursesResponse(b),
          mindGames |-> GamesResponse,
          profile |-> ProfileResponse(b)]
    ELSE held

fetchData(held, b, ok) ==
    IF ok.config /\ ok.courses /\ ok.games
    THEN [learningLevels |-> ConfigResponse.learning_levels,
          courses |-> CoursesResponse(b),
          mindGames |-> GamesResponse,
          profile |-> IF ok.profile THEN ProfileResponse(b) ELSE held.profile]
    ELSE held

\* an await of the screen in flight: the fetchData of the mount effect, of
\* onRefresh or of handleEnroll, or the POST of handleEnroll / handlePlayGame
Await(kind, by, arg) == [kind |-> kind, by |-> by, arg |-> arg]

Awaited(net, kind) == {r \in BagToSet(net) : r.kind = kind}

AwaitCount(net, kind) == BagCardinality([r \in Awaited(net, kind) |-> net[r]])

EduFrame == UNCHANGED <<frontend, agencyVars, webVars, walletVars>>

\* no Modal is visible
NoModal == selectedCourse = null /\ selectedGame = null

EduInit ==
    /\ courses = {}
    /\ mindGames = {}
    /\ profile = null
    /\ learningLevels = {}
    /\ eduLoading = TRUE
    /\ eduRefreshing = FALSE
    /\ selectedTab = "courses"
    /\ selectedCourse = null
    /\ selectedGame = null
    /\ enrolling = FALSE
    /\ playing = FALSE
    /\ gameResult = null
    /\ eduBackend = InitialEducation

\* fetchData settles: the setters or the catch, setLoading(false), and then
\* the rest of the handler that awaited it
EduFetchDone(req, ok) ==
    /\ frontend = "education"
    /\ req \in Awaited(eduNetwork, "fetchData")
    /\ LET r == fetchData(Held, eduBackend, ok)
       IN  /\ learningLevels' = r.learningLevels
           /\ courses' = r.courses
           /\ mindGames' = r.mindGames
           /\ profile' = r.profile
    /\ eduLoading' = FALSE
    /\ eduNetwork' = Without(eduNetwork, req)
    /\ CASE req.by = "mount" ->
              UNCHANGED <<eduRefreshing, selectedCourse, enrolling, lastAlert>>
         [] req.by = "refresh" ->
              /\ eduRefreshing' = FALSE
              /\ UNCHANGED <<selectedCourse, enrolling, lastAlert>>
         [] req.by = "enroll" ->
              /\ selectedCourse' = null
              /\ lastAlert' = "Successfully enrolled"
              /\ enrolling' = FALSE
              /\ UNCHANGED eduRefreshing
    /\ UNCHANGED <<selectedTab, selectedGame, playing, gameResult, eduBackend>>
    /\ EduFrame

\* onRefresh, up to the await
EduRefresh ==
    /\ frontend = "education"
    /\ ~eduLoading
    /\ NoModal
    /\ ~eduRefreshing
    /\ eduRefreshing' = TRUE
    /\ eduNetwork' = Sent(eduNetwork, Await("fetchData", "refresh", ""))
    /\ UNCHANGED <<courses, mindGames, profile, learningLevels, eduLoading,
                   selectedTab, selectedCourse, selectedGame, enrolling, playing,
                   gameResult, eduBackend, lastAlert>>
    /\ EduFrame

SetSelectedTab(t) ==
    /\ frontend = "education"
    /\ ~eduLoading
    /\ NoModal
    /\ t # selectedTab
    /\ selectedTab' = t
    /\ UNCHANGED <<courses, mindGames, profile, learningLevels, eduLoading,
                   eduRefreshing, selectedCourse, selectedGame, enrolling, playing,
                   gameResult, eduNetwork, eduBackend, lastAlert>>
    /\ EduFrame

\* a course card is pressed
SetSelectedCourse(course) ==
    /\ frontend = "education"
    /\ ~eduLoading
    /\ NoModal
    /\ selectedTab = "courses"
    /\ course \in courses
    /\ selectedCourse' = course
    /\ UNCHANGED <<courses, mindGames, profile, learningLevels, eduLoading,
                   eduRefreshing, selectedTab, selectedGame, enrolling, playing,
                   gameResult, eduNetwork, eduBackend, lastAlert>>
    /\ EduFrame

\* the close button of the course modal
CloseCourseModal ==
    /\ frontend = "education"
    /\ ~eduLoading
    /\ selectedCourse # null
    /\ selectedCourse' = null
    /\ UNCHANGED <<courses, mindGames, profile, learningLevels, eduLoading,
                   eduRefreshing, selectedTab, selectedGame, enrolling, playing,
                   gameResult, eduNetwork, eduBackend, lastAlert>>
    /\ EduFrame

\* disabled={enrolling} of the enroll button
EnrollDisabled_never == FALSE

EnrollDisabled == enrolling

\* handleEnroll(selectedCourse), up to the first await
HandleEnroll ==
    /\ frontend = "education"
    /\ ~eduLoading
    /\ selectedCourse # null
    /\ ~EnrollDisabled
    /\ enrolling' = TRUE
    /\ eduNetwork' = Sent(eduNetwork, Await("enroll", "enroll", selectedCourse.course_id))
    /\ UNCHANGED <<courses, mindGames, profile, learningLevels, eduLoading,
                   eduRefreshing, selectedTab, selectedCourse, selectedGame, playing,
                   gameResult, eduBackend, lastAlert>>
    /\ EduFrame

\* POST /education/enroll resolves: the handler goes on to await fetchData()
EnrollOk(req) ==
    /\ frontend = "education"
    /\ req \in Awaited(eduNetwork, "enroll")
    /\ eduBackend' = [eduBackend EXCEPT !.enrolled = @ \cup {req.arg}]
    /\ eduNetwork' = Sent(Without(eduNetwork, req), Await("fetchData", "enroll", req.arg))
    /\ UNCHANGED <<courses, mindGames, profile, learningLevels, eduLoading,
                   eduRefreshing, selectedTab, selectedCourse, selectedGame, enrolling,
                   playing, gameResult, lastAlert>>
    /\ EduFrame

\* POST /education/enroll rejects: alert(detail || 'Failed to enroll'),
\* setEnrolling(false)
EnrollFail(req, err) ==
    /\ frontend = "education"
    /\ req \in Awaited(eduNetwork, "enroll")
    /\ eduNetwork' = Without(eduNetwork, req)
    /\ lastAlert' = ErrorMessage(err, "Failed to enroll")
    /\ enrolling' = FALSE
    /\ UNCHANGED <<courses, mindGames, profile, learningLevels, eduLoading,
                   eduRefreshing, selectedTab, selectedCourse, selectedGame, playing,
                   gameResult, eduBackend>>
    /\ EduFrame

\* a game card is pressed
SetSelectedGame(game) ==
    /\ frontend = "education"
    /\ ~eduLoading
    /\ NoModal
    /\ selectedTab = "games"
    /\ game \in mindGames
    /\ selectedGame' = game
    /\ UNCHANGED <<courses, mindGames, profile, learningLevels, eduLoading,
                   eduRefreshing, selectedTab, selectedCourse, enrolling, playing,
                   gameResult, eduNetwork, eduBackend, lastAlert>>
    /\ EduFrame

\* the close button of the game modal
CloseGameModal ==
    /\ frontend = "education"
    /\ ~eduLoading
    /\ selectedGame # null
    /\ selectedGame' = null
    /\ gameResult' = null
    /\ UNCHANGED <<courses, mindGames, profile, learningLevels, eduLoading,
                   eduRefreshing, selectedTab, selectedCourse, enrolling, playing,
                   eduNetwork, eduBackend, lastAlert>>
    /\ EduFrame

\* handlePlayGame(game), up to the await
handlePlayGame(game) ==
    /\ playing' = TRUE
    /\ eduNetwork' = Sent(eduNetwork, Await("play", "play", game.game_id))

\* disabled={playing} of the Play Now button
PlayDisabled_never == FALSE

PlayDisabled == playing

\* the Play Now button, rendered while there is no game result
PlayNow ==
    /\ frontend = "education"
    /\ ~eduLoading
    /\ selectedGame # null
    /\ gameResult = null
    /\ ~PlayDisabled
    /\ eduBackend.games_played + AwaitCount(eduNetwork, "play") < MaxPlayed
    /\ handlePlayGame(selectedGame)
    /\ UNCHANGED <<courses, mindGames, profile, learningLevels, eduLoading,
                   eduRefreshing, selectedTab, selectedCourse, selectedGame, enrolling,
                   gameResult, eduBackend, lastAlert>>
    /\ EduFrame

\* the Play Again button of the result: setGameResult(null), then
\* handlePlayGame(selectedGame)
PlayAgain ==
    /\ frontend = "education"
    /\ ~eduLoading
    /\ selectedGame # null
    /\ gameResult # null
    /\ eduBackend.games_played + AwaitCount(eduNetwork, "play") < MaxPlayed
    /\ gameResult' = null
    /\ handlePlayGame(selectedGame)
    /\ UNCHANGED <<courses, mindGames, profile, learningLevels, eduLoading,
                   eduRefreshing, selectedTab, selectedCourse, selectedGame, enrolling,
                   eduBackend, lastAlert>>
    /\ EduFrame

\* POST /education/play-mind-game resolves: setGameResult, setPlaying(false)
PlayOk(req, won) ==
    /\ frontend = "education"
    /\ req \in Awaited(eduNetwork, "play")
    /\ eduNetwork' = Without(eduNetwork, req)
    /\ eduBackend' = [eduBackend EXCEPT !.games_played = @ + 1]
    /\ gameResult' = [won |-> won, coins |-> IF won THEN 10 ELSE 0]
    /\ playing' = FALSE
    /\ UNCHANGED <<courses, mindGames, profile, learningLevels, eduLoading,
                   eduRefreshing, selectedTab, selectedCourse, selectedGame, enrolling,
                   lastAlert>>
    /\ EduFrame

\* POST /education/play-mind-game rejects: alert(detail || 'Failed to play
\* game'), setPlaying(false)
PlayFail_noFinally(req, err) ==
    /\ frontend = "education"
    /\ req \in Awaited(eduNetwork, "play")
    /\ eduNetwork' = Without(eduNetwork, req)
    /\ lastAlert' = ErrorMessage(err, "Failed to play game")
    /\ UNCHANGED <<courses, mindGames, profile, learningLevels, eduLoading,
                   eduRefreshing, selectedTab, selectedCourse, selectedGame, enrolling,
                   playing, gameResult, eduBackend>>
    /\ EduFrame

PlayFail(req, err) ==
    /\ frontend = "education"
    /\ req \in Awaited(eduNetwork, "play")
    /\ eduNetwork' = Without(eduNetwork, req)
    /\ lastAlert' = ErrorMessage(err, "Failed to play game")
    /\ playing' = FALSE
    /\ UNCHANGED <<courses, mindGames, profile, learningLevels, eduLoading,
                   eduRefreshing, selectedTab, selectedCourse, selectedGame, enrolling,
                   gameResult, eduBackend>>
    /\ EduFrame

EduNext ==
    \/ \E req \in BagToSet(eduNetwork), ok \in FetchOutcomes : EduFetchDone(req, ok)
    \/ EduRefresh
    \/ \E t \in {"courses", "games"} : SetSelectedTab(t)
    \/ \E course \in courses : SetSelectedCourse(course)
    \/ CloseCourseModal
    \/ HandleEnroll
    \/ \E req \in BagToSet(eduNetwork) : EnrollOk(req)
    \/ \E req \in BagToSet(eduNetwork), err \in ServerErrors : EnrollFail(req, err)
    \/ \E game \in mindGames : SetSelectedGame(game)
    \/ CloseGameModal
    \/ PlayNow
    \/ PlayAgain
    \/ \E req \in BagToSet(eduNetwork), won \in BOOLEAN : PlayOk(req, won)
    \/ \E req \in BagToSet(eduNetwork), err \in ServerErrors : PlayFail(req, err)

----------------------------------------------------------------------------
(* AgencyScreen: the screen's source as test_result.md holds it *)

Whitespace == {" "}

\* String.prototype.trim on a sequence of characters
trim(s) ==
    LET kept == {i \in 1..Len(s) : s[i] \notin Whitespace}
    IN  IF kept = {} THEN <<>>
        ELSE SubSeq(s, CHOOSE i \in kept : \A j \in kept : i <= j,
                       CHOOSE i \in kept : \A j \in kept : j <= i)

\* what the TextInput can hold
ReferralCodes == { <<>>, <<" ">>, <<"M", "N">>, <<" ", "M">> }

\* the backend's agency document of a new user
InitialAgency == [referred_by |-> <<>>]

\* GET /agency/status, answered from the backend's document b
StatusResponse(b) == [referral_code |-> <<"M", "E">>, referred_by |-> b.referred_by]

AgencyFrame == UNCHANGED <<frontend, eduVars, webVars, walletVars>>

AgencyInit ==
    /\ agencyStatus = null
    /\ agencyRefreshing = FALSE
    /\ applyModalVisible = FALSE
    /\ referralCode = <<>>
    /\ applying = FALSE
    /\ agencyBackend = InitialAgency

\* fetchData settles: setAgencyStatus or the catch, and then the rest of the
\* handler that awaited it
AgencyFetchDone(req, ok) ==
    /\ frontend = "agency"
    /\ req \in Awaited(agencyNetwork, "status")
    /\ agencyNetwork' = Without(agencyNetwork, req)
    /\ agencyStatus' = (IF ok THEN StatusResponse(agencyBackend) ELSE agencyStatus)
    /\ CASE req.by = "mount" -> UNCHANGED <<agencyRefreshing, applying>>
         [] req.by = "refresh" -> agencyRefreshing' = FALSE /\ UNCHANGED applying
         [] req.by = "apply" -> applying' = FALSE /\ UNCHANGED agencyRefreshing
    /\ UNCHANGED <<applyModalVisible, referralCode, agencyBackend, lastAlert>>
    /\ AgencyFrame

\* onRefresh, up to the await
AgencyRefresh ==
    /\ frontend = "agency"
    /\ ~applyModalVisible
    /\ ~agencyRefreshing
    /\ agencyRefreshing' = TRUE
    /\ agencyNetwork' = Sent(agencyNetwork, Await("status", "refresh", <<>>))
    /\ UNCHANGED <<agencyStatus, applyModalVisible, referralCode, applying,
                   agencyBackend, lastAlert>>
    /\ AgencyFrame

\* the "Apply Referral Code" button, and the modal's close button
SetApplyModalVisible(v) ==
    /\ frontend = "agency"
    /\ applyModalVisible # v
    /\ applyModalVisible' = v
    /\ UNCHANGED <<agencyStatus, agencyRefreshing, referralCode, applying,
                   agencyNetwork, agencyBackend, lastAlert>>
    /\ AgencyFrame

\* onChangeText of the TextInput
SetReferralCode(v) ==
    /\ frontend = "agency"
    /\ applyModalVisible
    /\ v # referralCode
    /\ referralCode' = v
    /\ UNCHANGED <<agencyStatus, agencyRefreshing, applyModalVisible, applying,
                   agencyNetwork, agencyBackend, lastAlert>>
    /\ AgencyFrame

\* !referralCode.trim()
CodeMissing_noTrim(code) == code = <<>>

CodeMissing(code) == trim(code) = <<>>

\* disabled={applying} of the Apply Code button
ApplyDisabled_never == FALSE

ApplyDisabled == applying

\* applyReferralCode, up to the await
ApplyReferralCode ==
    /\ frontend = "agency"
    /\ applyModalVisible
    /\ ~ApplyDisabled
    /\ IF CodeMissing(referralCode)
       THEN /\ lastAlert' = "Please enter a referral code"
            /\ UNCHANGED <<applying, agencyNetwork>>
       ELSE /\ applying' = TRUE
            /\ agencyNetwork' = Sent(agencyNetwork, Await("apply", "apply", referralCode))
            /\ UNCHANGED lastAlert
    /\ UNCHANGED <<agencyStatus, agencyRefreshing, applyModalVisible, referralCode,
                   agencyBackend>>
    /\ AgencyFrame

\* POST /agency/apply-referral resolves: the success alert, the modal closed,
\* the input cleared, and the handler goes on to await fetchData()
ApplyOk(req) ==
    /\ frontend = "agency"
    /\ req \in Awaited(agencyNetwork, "apply")
    /\ agencyBackend' = [agencyBackend EXCEPT !.referred_by = trim(req.arg)]
    /\ lastAlert' = "Referral code applied successfully!"
    /\ applyModalVisible' = FALSE
    /\ referralCode' = <<>>
    /\ agencyNetwork' = Sent(Without(agencyNetwork, req), Await("status", "apply", <<>>))
    /\ UNCHANGED <<agencyStatus, agencyRefreshing, applying>>
    /\ AgencyFrame

\* POST /agency/apply-referral rejects: the error alert, setApplying(false)
ApplyFail(req, err) ==
    /\ frontend = "agency"
    /\ req \in Awaited(agencyNetwork, "apply")
    /\ agencyNetwork' = Without(agencyNetwork, req)
    /\ lastAlert' = ErrorMessage(err, "Failed to apply referral code")
    /\ applying' = FALSE
    /\ UNCHANGED <<agencyStatus, agencyRefreshing, applyModalVisible, referralCode,
                   agencyBackend>>
    /\ AgencyFrame

AgencyNext ==
    \/ \E req \in BagToSet(agencyNetwork), ok \in BOOLEAN : AgencyFetchDone(req, ok)
    \/ AgencyRefresh
    \/ \E v \in BOOLEAN : SetApplyModalVisible(v)
    \/ \E v \in ReferralCodes : SetReferralCode(v)
    \/ ApplyReferralCode
    \/ \E req \in BagToSet(agencyNetwork) : ApplyOk(req)
    \/ \E req \in BagToSet(agencyNetwork), err \in ServerErrors : ApplyFail(req, err)

\* the mobile screens before they are opened
MobileIdle ==
    /\ EduInit
    /\ eduNetwork = EmptyBag
    /\ AgencyInit
    /\ agencyNetwork = EmptyBag
    /\ lastAlert = ""

----------------------------------------------------------------------------
(* Specifications *)

\* the web app, with the wallet backend idle
WalletIdle ==
    /\ wallet = InitialWallet
    /\ vip = InitialVip
    /\ vipLevels = LevelTable(<<0, 99, 299, 599, 999, 1999>>,
                              <<0, 500, 1000, 1500, 3000, 5000>>)
    /\ transactions = <<>>
    /\ notifications = <<>>
    /\ lastResponse = [op |-> "none"]

Init == frontend = "web" /\ WebInit /\ WalletIdle /\ MobileIdle

Next ==
    \/ \E r \in Routes : Reload(r)
    \/ Mount
    \/ \E r \in Routes : Navigate(r)
    \/ Redirect
    \/ Logout
    \/ LoginSubmit
    \/ RegisterSubmit
    \/ \E req \in BagToSet(network), t \in Tokens, u \in UserObjects :
         AuthSubmitOk(req, t, u)
    \/ \E req \in BagToSet(network), err \in Errors : LoginFail(req, err)
    \/ \E req \in BagToSet(network), err \in Errors : RegisterFail(req, err)
    \/ \E v \in WebAmounts : SetAmount(v)
    \/ \E v \in DonorNames : SetDonorName(v)
    \/ DonateSubmit
    \/ \E req \in BagToSet(network) : DonateOk(req)
    \/ \E req \in BagToSet(network) : DonateFail(req)
    \/ \E req \in BagToSet(network) : LandingFetchOk(req)
    \/ \E req \in BagToSet(network) : DashboardFetchOk(req)
    \/ \E req \in BagToSet(network) :
         \E failed \in (SUBSET FetchParts(req.kind)) \ {{}} : FetchFail(req, failed)

Spec == Init /\ [][Next]_vars

\* the donation form as it mounts for a logged-in user, and every amount typed
\* into it
AmountInputs == {<<>>} \cup {<<p>> : p \in 0..MaxAmount}

BreakdownInit ==
    /\ \E t \in Tokens, u \in UserObjects :
         /\ localStorage = login([ls |-> EmptyStorage, user |-> null], t, u).ls
         /\ user = u
         /\ donorName = u.name
    /\ loading = FALSE
    /\ route = "/donate"
    /\ loginError = ""
    /\ loginLoading = FALSE
    /\ registerError = ""
    /\ registerLoading = FALSE
    /\ amount = <<>>
    /\ submitted = FALSE
    /\ donateLoading = FALSE
    /\ landingStats = null
    /\ platformFees = null
    /\ dashboardStats = null
    /\ donations = <<>>
    /\ familyEquity = null
    /\ lastAuth = "login"
    /\ ledger \in {EmptyLedger, RecordDonation(EmptyLedger, 1)}
    /\ network = EmptyBag
    /\ WalletIdle
    /\ frontend = "web"
    /\ MobileIdle

TypeAmount == \E v \in AmountInputs : SetAmount(v)

SpecBreakdown == BreakdownInit /\ [][TypeAmount]_vars

\* the wallet backend, with the web app idle
WebIdle ==
    /\ localStorage = EmptyStorage
    /\ user = null
    /\ loading = FALSE
    /\ route = "/login"
    /\ loginError = ""
    /\ loginLoading = FALSE
    /\ registerError = ""
    /\ registerLoading = FALSE
    /\ amount = <<>>
    /\ donorName = ""
    /\ submitted = FALSE
    /\ donateLoading = FALSE
    /\ landingStats = null
    /\ platformFees = null
    /\ dashboardStats = null
    /\ donations = <<>>
    /\ familyEquity = null
    /\ lastAuth = "none"
    /\ ledger = EmptyLedger
    /\ network = EmptyBag

WalletSpecInit == WalletInit /\ WebIdle /\ frontend = "web" /\ MobileIdle

WalletNext ==
    \/ \E a \in DepositAmounts : Deposit(a)
    \/ \E l \in Levels \ {0} : Subscribe(l)
    \/ GetStatus

SpecWallet == WalletSpecInit /\ [][WalletNext]_vars

\* the three frontends: a run is of the web app, of the Education screen or of
\* the Agency screen, each from its mount on
AppsInit ==
    /\ WalletIdle
    /\ lastAlert = ""
    /\ \/ /\ frontend = "web"
          /\ WebInit
          /\ EduInit /\ eduNetwork = EmptyBag
          /\ AgencyInit /\ agencyNetwork = EmptyBag
       \/ /\ frontend = "education"
          /\ WebIdle
          /\ EduInit /\ eduNetwork = SetToBag({Await("fetchData", "mount", "")})
          /\ AgencyInit /\ agencyNetwork = EmptyBag
       \/ /\ frontend = "agency"
          /\ WebIdle
          /\ EduInit /\ eduNetwork = EmptyBag
          /\ AgencyInit /\ agencyNetwork = SetToBag({Await("status", "mount", <<>>)})

AppsNext == Next \/ EduNext \/ AgencyNext

SpecApps == AppsInit /\ [][AppsNext]_vars

----------------------------------------------------------------------------
(* The donation split *)

\* |x - y| <= 50: x is y rounded to a whole hundred
Rounded(x, y) == x - y <= 50 /\ y - x <= 50

\* C1 as stated: every bucket of the split, the charity fund too, is the amount
\* times a constant, so the charity share shown for one amount and for another
\* are in the ratio of the amounts (and the two percentages are 2% and 60% of
\* the amount, to the paisa).
C1_EveryBucketProportional ==
    [][ (DonateFormShown /\ DonateFormShown') =>
          /\ charityContribution(amount') * parseFloat(OrZero(amount))
               = charityContribution(amount) * parseFloat(OrZero(amount'))
          /\ \A s \in vipGiftIncome(amount') :
               Rounded(100 * s, 2 * parseFloat(OrZero(amount')))
          /\ \A s \in familyEquityShare(amount') :
               Rounded(100 * s, 60 * parseFloat(OrZero(amount'))) ]_vars

\* C1 amended: VIP income and family equity are fixed percentages of the amount
\* (2% and 60%, printed to the paisa), whatever the ledger and the auth state
\* hold; the charity share is a flat 5 rupees, whatever the amount.
C1_FlatCharityAndFixedPercentages ==
    DonateFormShown =>
        LET a == IF amount = <<>> THEN 0 ELSE amount[1]
        IN  /\ DonatePageView.charity = 5
            /\ DonatePageView.vip # {}
            /\ \A s \in DonatePageView.vip : Rounded(100 * s, 2 * a)
            /\ DonatePageView.equity # {}
            /\ \A s \in DonatePageView.equity : Rounded(100 * s, 60 * a)

C1_Witness ==
    /\ DonateFormShown
    /\ ledger.count = 1
    /\ amount = <<200>>
    /\ DonatePageView.charity = 5
    /\ DonatePageView.vip = {4}
    /\ DonatePageView.equity = {120}

C3_SharesShownAreExact ==
    DonateFormShown =>
        LET a == IF amount = <<>> THEN 0 ELSE amount[1]
        IN  /\ \A s \in DonatePageView.vip : 100 * s = 2 * a
            /\ \A s \in DonatePageView.equity : 100 * s = 60 * a

\* C3 amended: the two shares shown are 2% and 60% of the entered amount rounded
\* to two decimals, which is exactly 2% and 60% for an amount in whole rupees,
\* and an empty field is treated as amount 0 (both shares 0.00).
C3_SharesShownAreRounded ==
    DonateFormShown =>
        LET a == IF amount = <<>> THEN 0 ELSE amount[1]
        IN  /\ DonatePageView.vip # {}
            /\ \A s \in DonatePageView.vip : Rounded(100 * s, 2 * a)
            /\ DonatePageView.equity # {}
            /\ \A s \in DonatePageView.equity : Rounded(100 * s, 60 * a)
            /\ a % 100 = 0 =>
                 /\ DonatePageView.vip = {(2 * a) \div 100}
                 /\ DonatePageView.equity = {(60 * a) \div 100}
            /\ amount = <<>> => DonatePageView.vip = {0} /\ DonatePageView.equity = {0}

C3_Witness ==
    /\ DonateFormShown
    /\ amount = <<55>>
    /\ DonatePageView.vip = {1}
    /\ DonatePageView.equity = {33}

\* C4: the family equity share is 60 in every reachable state of the web app:
\* the landing page shows 60%, the success screen says 60%, and the breakdown
\* of the form takes 60% of the amount, whoever is logged in and whatever has
\* been donated.
C4_FamilyEquityIsSixty ==
    /\ LandingPageView.equityPercent = 60
    /\ LandingPageView.equityFill = 60
    /\ (RouteElement.element = "DonatePage" /\ submitted) => DonatePageView.equityPercent = 60
    /\ DonateFormShown =>
         /\ DonatePageView.equity # {}
         /\ \A s \in DonatePageView.equity :
              Rounded(100 * s, 60 * (IF amount = <<>> THEN 0 ELSE amount[1]))

C4_Witness ==
    /\ lastAuth = "login"
    /\ ledger.count > 0
    /\ DonateFormShown
    /\ amount = <<100>>
    /\ DonatePageView.equity = {60}

----------------------------------------------------------------------------
(* The VIP wallet backend *)

\* C5: the eligible level reported by the status endpoint is a threshold lookup
\* on the recharge total: a level is at or below the eligible one exactly when
\* the total has reached that level's requirement, and no further deposit
\* lowers the eligible level.
C5_EligibleLevelIsThresholdLookup ==
    /\ lastResponse.op = "status" =>
         /\ lastResponse.total_recharged = vip.total_recharged
         /\ \A l \in Levels :
              (l <= lastResponse.eligible_level)
                <=> (vip.total_recharged >= vipLevels[l].recharge_requirement)
    /\ \A a \in DepositAmounts :
         EligibleLevel(vipLevels, vip.total_recharged + a)
           >= EligibleLevel(vipLevels, vip.total_recharged)

C5_Witness ==
    /\ lastResponse.op = "status"
    /\ lastResponse.total_recharged = 500
    /\ vipLevels[1].recharge_requirement = 500
    /\ lastResponse.eligible_level = 1
    /\ lastResponse.vip_level = 0
    /\ ~lastResponse.is_active

\* C6: a successful deposit of a adds exactly a to the coins balance, one
\* transaction for that deposit, a to the VIP recharge total and one
\* notification, and leaves the other balances and the VIP level alone.
C6_DepositEffect ==
    [][ (lastResponse'.op = "deposit" /\ lastResponse'.ok) =>
          LET a == lastResponse'.amount
          IN  /\ wallet'.coins_balance = wallet.coins_balance + a
              /\ wallet'.bonus_balance = wallet.bonus_balance
              /\ wallet'.stars_balance = wallet.stars_balance
              /\ wallet'.withdrawable_balance = wallet.withdrawable_balance
              /\ Len(transactions') = Len(transactions) + 1
              /\ SubSeq(transactions', 1, Len(transactions)) = transactions
              /\ transactions'[Len(transactions')].type = "deposit"
              /\ transactions'[Len(transactions')].amount = a
              /\ vip'.total_recharged = vip.total_recharged + a
              /\ vip'.vip_level = vip.vip_level
              /\ vip'.is_active = vip.is_active
              /\ Len(notifications') = Len(notifications) + 1
              /\ SubSeq(notifications', 1, Len(notifications)) = notifications ]_vars

C6_Witness ==
    /\ lastResponse.op = "deposit"
    /\ lastResponse.amount = 500
    /\ wallet.coins_balance = 2000
    /\ wallet.bonus_balance = 100
    /\ vip.total_recharged = 500
    /\ Len(transactions) = 1
    /\ Len(notifications) = 1

\* C7: a subscription to a level succeeds only when the recharge total meets
\* the level's requirement; then it takes the level's fee (99 for Bronze) off
\* the coins balance, makes the level the user's active VIP level and adds one
\* transaction and one notification; when the requirement is not met, the
\* wallet, the VIP status, the transactions and the notifications stay as they
\* are.
C7_SubscribeEffect ==
    [][ lastResponse'.op = "subscribe" =>
          LET l == lastResponse'.level
          IN  IF lastResponse'.ok
              THEN /\ vip.total_recharged >= vipLevels[l].recharge_requirement
                   /\ wallet'.coins_balance = wallet.coins_balance - vipLevels[l].fee
                   /\ l = 1 => wallet'.coins_balance = wallet.coins_balance - 99
                   /\ wallet'.bonus_balance = wallet.bonus_balance
                   /\ vip'.vip_level = l
                   /\ vip'.is_active
                   /\ vip'.total_recharged = vip.total_recharged
                   /\ Len(transactions') = Len(transactions) + 1
                   /\ SubSeq(transactions', 1, Len(transactions)) = transactions
                   /\ Len(notifications') = Len(notifications) + 1
              ELSE /\ vip.total_recharged < vipLevels[l].recharge_requirement
                   /\ wallet' = wallet
                   /\ vip' = vip
                   /\ transactions' = transactions
                   /\ notifications' = notifications ]_vars

C7_Witness ==
    /\ lastResponse = [op |-> "subscribe", ok |-> TRUE, level |-> 1]
    /\ vip = [vip_level |-> 1, is_active |-> TRUE, total_recharged |-> 500]
    /\ wallet.coins_balance = 1901
    /\ Len(transactions) = 2
    /\ Len(notifications) = 2

----------------------------------------------------------------------------
(* Authentication *)

\* C8: the dashboard is rendered, and its data fetched, only for an
\* authenticated user: where DashboardPage is rendered the auth user is not
\* null; at /dashboard the loading placeholder is rendered while auth loading
\* is true, and a redirect to /login once loading is false and the user null.
C8_DashboardOnlyWhenAuthenticated ==
    /\ RouteElement.element = "DashboardPage" => (user # null /\ ~loading)
    /\ (route = "/dashboard" /\ loading) => RouteElement.element = "Loading..."
    /\ (route = "/dashboard" /\ ~loading /\ user = null) =>
         (RouteElement.element = "Navigate" /\ RouteElement.to = "/login")
    /\ (Pending("dashboard") # {} \/ dashboardStats # null \/ familyEquity # null) =>
         (route = "/dashboard" /\ user # null)

C8_Witness ==
    /\ route = "/dashboard"
    /\ RouteElement.element = "DashboardPage"
    /\ user # null
    /\ dashboardStats # null
    /\ lastAuth = "login"

\* the requests sent by a step: the live ones of which the network holds more
\* after it (a request that stops being live was sent by an earlier step)
NewlySent ==
    {r \in BagToSet(network') : r.live /\ CopiesIn(r, network') > CopiesIn(r, network)}

\* C9: a request carries Authorization: Bearer <token> exactly when
\* localStorage holds a token as it is sent, and then with that token; no
\* request sent while logout is the last auth call carries the header.
C9_BearerIffTokenStored ==
    [][ \A r \in NewlySent :
          /\ (r.Authorization # <<>>) <=> ("token" \in DOMAIN localStorage')
          /\ ("token" \in DOMAIN localStorage') =>
                r.Authorization = <<"Bearer", localStorage'["token"]>>
          /\ lastAuth' = "logout" => r.Authorization = <<>> ]_vars

C9_Witness ==
    /\ lastAuth = "logout"
    /\ route = "/login"
    /\ \E r \in BagToSet(network) :
         r.kind = "login" /\ r.live /\ r.Authorization = <<>>

\* C10: login(token, user) stores the token and the serialized user and makes
\* that user the auth user; logout removes both entries and makes the auth
\* user null; so logout after login leaves the unauthenticated state, logout is
\* idempotent, and the app is in the state its last auth call left.
C10_LoginLogout ==
    /\ \A t \in Tokens, u \in UserObjects :
         LET st == login(AuthState, t, u)
         IN  /\ st.ls["token"] = t
             /\ st.ls["user"] = <<"{", u.name, u.phone, "}">>
             /\ JSONParse(st.ls["user"]) = u
             /\ st.user = u
             /\ logout(st) = [ls |-> <<>>, user |-> null]
    /\ logout(AuthState).user = null
    /\ DOMAIN logout(AuthState).ls = {}
    /\ logout(logout(AuthState)) = logout(AuthState)
    /\ lastAuth = "logout" => (user = null /\ DOMAIN localStorage = {})
    /\ lastAuth = "login" =>
         /\ DOMAIN localStorage = {"token", "user"}
         /\ localStorage["token"] \in Tokens
         /\ ~loading => (user # null /\ localStorage["user"] = JSONStringify(user))

C10_Witness ==
    /\ lastAuth = "logout"
    /\ user = null
    /\ ~loading
    /\ DOMAIN localStorage = {}
    /\ route = "/donate"
    /\ donorName = "Amina"

\* C11: the mount effect of AuthProvider makes the saved user the auth user
\* only when localStorage holds both a token and a saved user; when either is
\* missing the auth user stays null; in both cases localStorage is left as it
\* is, a leftover entry included.
C11_MountRestoresOnlyWithBoth ==
    [][ (loading /\ ~loading') =>
          /\ localStorage' = localStorage
          /\ IF {"token", "user"} \subseteq DOMAIN localStorage
             THEN /\ user' \in UserObjects
                  /\ <<"{", user'.name, user'.phone, "}">> = localStorage["user"]
             ELSE user' = null ]_vars

C11_Witness ==
    /\ ~loading
    /\ lastAuth = "none"
    /\ user = null
    /\ DOMAIN localStorage = {"user"}

----------------------------------------------------------------------------
(* The forms *)

\* the requests of a kind in flight before and after a step, and those among
\* them whose page is still mounted
InFlightBefore(kind) ==
    BagCardinality([r \in {q \in BagToSet(network) : q.kind = kind} |-> network[r]])

InFlightAfter(kind) ==
    BagCardinality([r \in {q \in BagToSet(network') : q.kind = kind} |-> network'[r]])

LiveBefore(kind) ==
    BagCardinality([r \in {q \in BagToSet(network) : q.kind = kind /\ q.live}
                      |-> network[r]])

LiveAfter(kind) ==
    BagCardinality([r \in {q \in BagToSet(network') : q.kind = kind /\ q.live}
                      |-> network'[r]])

\* a step in which a request of the kind is answered (a page load, which
\* sets loading, drops the requests instead)
Answered(kind) == ~loading' /\ InFlightAfter(kind) < InFlightBefore(kind)

\* a step in which the page sends a request of the kind
Submitted(kind) == InFlightAfter(kind) > InFlightBefore(kind)

\* C12: a login or registration request that is answered either succeeds, and
\* then the token and the serialized user are stored, the user is the auth
\* user and the location is /dashboard, or fails, and then the auth user,
\* localStorage and the location stay as they are and the form that sent it
\* shows the server's detail or its default message and is no longer busy;
\* the step that submits a form clears its error.
C12_SubmitOutcome ==
    [][ /\ \A kind \in {"login", "register"} :
             Answered(kind) =>
               \/ \E t \in Tokens, u \in UserObjects :
                    /\ DOMAIN localStorage' = {"token", "user"}
                    /\ localStorage'["token"] = t
                    /\ localStorage'["user"] = <<"{", u.name, u.phone, "}">>
                    /\ user' = u
                    /\ route' = "/dashboard"
               \/ /\ user' = user
                  /\ localStorage' = localStorage
                  /\ route' = route
                  /\ (kind = "login" /\ LiveAfter(kind) < LiveBefore(kind)) =>
                       /\ loginError' \in {"Invalid credentials", "Login failed"}
                       /\ ~loginLoading'
                  /\ (kind = "register" /\ LiveAfter(kind) < LiveBefore(kind)) =>
                       /\ registerError' \in {"Invalid credentials", "Registration failed"}
                       /\ ~registerLoading'
        /\ Submitted("login") =>
             (loginError' = "" /\ user' = user /\ localStorage' = localStorage /\ route' = route)
        /\ Submitted("register") =>
             (registerError' = "" /\ user' = user /\ localStorage' = localStorage
                /\ route' = route) ]_vars

C12_Witness ==
    /\ route = "/login"
    /\ loginError = "Login failed"
    /\ ~loginLoading
    /\ user = null
    /\ InFlight("login") = 0
    /\ DOMAIN localStorage = {}

\* the requests of a kind in flight whose page is still mounted
Live(kind) == {r \in Pending(kind) : r.live}

\* the busy flags of the three forms of the web app and of the play handler:
\* true exactly while the form's request is in flight
BusyWhileRequestInFlight ==
    /\ loginLoading <=> Live("login") # {}
    /\ registerLoading <=> Live("register") # {}
    /\ donateLoading <=> Live("donate") # {}
    /\ playing <=> Awaited(eduNetwork, "play") # {}

\* C13 as stated: each busy flag is true exactly while its handler's request
\* is in flight, so enrolling and applying are false once the POST has
\* completed.
C13_BusyExactlyWhileRequestInFlight ==
    /\ BusyWhileRequestInFlight
    /\ enrolling <=> Awaited(eduNetwork, "enroll") # {}
    /\ applying <=> Awaited(agencyNetwork, "apply") # {}

\* C13 amended: each busy flag is true from the start of its handler's request
\* until the handler has completed, whether the request succeeded or failed:
\* for login, register, donate and play game that is the completion of the
\* request; handleEnroll and applyReferralCode await a refetch after a
\* successful POST, and enrolling / applying stay true until that refetch has
\* completed.
C13_BusyUntilHandlerCompletes ==
    /\ BusyWhileRequestInFlight
    /\ enrolling <=>
         \/ Awaited(eduNetwork, "enroll") # {}
         \/ \E r \in Awaited(eduNetwork, "fetchData") : r.by = "enroll"
    /\ applying <=>
         \/ Awaited(agencyNetwork, "apply") # {}
         \/ \E r \in Awaited(agencyNetwork, "status") : r.by = "apply"

C13_Witness ==
    /\ frontend = "education"
    /\ enrolling
    /\ Awaited(eduNetwork, "enroll") = {}
    /\ eduBackend.enrolled = {"c1"}
    /\ selectedCourse # null

\* while the auth user is null the page at /donate shows the login prompt,
\* whose button leads to /login, or the success screen of a donation made
\* before; every request for a donation in flight was sent with a token
LoginPromptWhenNoUser ==
    /\ DonateFormShown => user # null
    /\ (RouteElement.element = "DonatePage" /\ user = null /\ ~submitted) =>
         (DonatePageView.screen = "login-prompt" /\ (~loading => "/login" \in NavTargets))
    /\ \A r \in Pending("donate") : r.Authorization # <<>>

\* a POST /donations is sent from the form by a non-null user; a step taken
\* while the user is null, other than the answer to an earlier request, sends
\* none and does not set loading or submitted
NoDonationWhileNoUser ==
    /\ Submitted("donate") =>
         (user # null /\ DonateFormShown /\ donateLoading' /\ ~submitted')
    /\ (user = null /\ ~Answered("donate")) =>
         /\ ~Submitted("donate")
         /\ (donateLoading' => donateLoading)
         /\ (submitted' => submitted)

\* C14: the donation form is rendered only for a non-null auth user, and no
\* step taken while the auth user is null sends a POST /donations or sets
\* loading or submitted (the answer to a request sent before the logout
\* apart): from the null user the page only leads to /login.
C14_DonationOnlyWhenLoggedIn ==
    []LoginPromptWhenNoUser /\ [][NoDonationWhileNoUser]_vars

C14_Witness ==
    /\ route = "/donate"
    /\ ~loading
    /\ user = null
    /\ lastAuth = "logout"
    /\ DonatePageView.screen = "login-prompt"
    /\ ledger.count = 1
    /\ Pending("donate") # {}

\* a step that leaves the page at the current location mounted: no page load
\* (which alone sets loading) and the same element rendered before and after
SamePageInstance ==
    /\ ~loading'
    /\ RouteElementAt(route', user', loading').element = RouteElement.element

SuccessScreenAfterDonation ==
    (RouteElement.element = "DonatePage" /\ DonatePageView.screen = "donation-success")
      => ledger.count >= 1

SubmittedStep ==
    /\ (~submitted /\ submitted') =>
         /\ Answered("donate")
         /\ LiveAfter("donate") < LiveBefore("donate")
         /\ ledger'.count = ledger.count + 1
         /\ SamePageInstance
    /\ (Answered("donate") /\ ledger' = ledger) =>
         /\ submitted' = submitted
         /\ amount' = amount
         /\ donorName' = donorName
         /\ (LiveAfter("donate") < LiveBefore("donate")) =>
               (~submitted' /\ ~donateLoading')
    /\ (submitted /\ SamePageInstance) => submitted'

\* C15: submitted turns true only in the step in which a POST /donations of
\* the mounted page is answered with the donation recorded, so the success
\* screen is shown only after a recorded donation; an answer without a
\* recorded donation leaves submitted, the amount and the donor name as they
\* are; and while the page instance stays mounted a true submitted stays true.
C15_SubmittedOnlyAfterSuccess ==
    []SuccessScreenAfterDonation /\ [][SubmittedStep]_vars

C15_Witness ==
    /\ RouteElement.element = "DonatePage"
    /\ DonatePageView.screen = "donation-success"
    /\ ~donateLoading
    /\ amount = <<200>>
    /\ ledger.count = 1
    /\ ledger.total_donations = 2

\* the values the landing page and the dashboard hold are set together
SetTogether ==
    /\ (landingStats = null) <=> (platformFees = null)
    /\ (dashboardStats = null) <=> (familyEquity = null)
    /\ dashboardStats = null => donations = <<>>

\* the step that answers the fetch of a mounted page sets all of the page's
\* values to what the server holds or none of them, and no other step that
\* keeps the page mounted changes them
AllOrNothing ==
    /\ SamePageInstance =>
         IF Answered("landing")
         THEN \/ landingStats' = ledger /\ platformFees' = PlatformFeesInfo
              \/ landingStats' = landingStats /\ platformFees' = platformFees
         ELSE landingStats' = landingStats /\ platformFees' = platformFees
    /\ SamePageInstance =>
         IF Answered("dashboard")
         THEN \/ /\ dashboardStats' = ledger
                 /\ Len(donations') = ledger.count
                 /\ familyEquity' = FamilyEquityInfo
              \/ /\ dashboardStats' = dashboardStats
                 /\ donations' = donations
                 /\ familyEquity' = familyEquity
         ELSE /\ dashboardStats' = dashboardStats
              /\ donations' = donations
              /\ familyEquity' = familyEquity

\* C16: the fetches of the landing page and of the dashboard are all or
\* nothing: when one or more of the parallel requests fail, every state value
\* of the page keeps its previous value, and when all succeed, all are set.
C16_FetchAllOrNothing ==
    []SetTogether /\ [][AllOrNothing]_vars

C16_Witness ==
    /\ RouteElement.element = "DashboardPage"
    /\ Pending("dashboard") = {}
    /\ dashboardStats = null
    /\ donations = <<>>
    /\ familyEquity = null
    /\ ledger.count = 1

----------------------------------------------------------------------------
(* The Education and Agency screens *)

\* what the four state values are to be after fetchData with the outcome ok:
\* with the config, courses and games requests answered the three are what the
\* server holds and the profile is the server's when its request is answered
\* too and the previous one when it failed; with one of the three failed all
\* four are the previous ones
AfterFetchData(ok) ==
    IF ok.config /\ ok.courses /\ ok.games
    THEN [learningLevels |-> {"Beginner", "Scholar"},
          courses |-> { [course_id |-> c,
                         enrollments |-> IF c \in eduBackend.enrolled THEN 1 ELSE 0] :
                          c \in CourseIds },
          mindGames |-> { [game_id |-> g, coins_reward |-> 10] : g \in GameIds },
          profile |-> IF ok.profile
                      THEN [courses_enrolled |-> Cardinality(eduBackend.enrolled),
                            games_played |-> eduBackend.games_played]
                      ELSE profile]
    ELSE [learningLevels |-> learningLevels, courses |-> courses,
          mindGames |-> mindGames, profile |-> profile]

FetchDataCases ==
    \A ok \in FetchOutcomes : fetchData(Held, eduBackend, ok) = AfterFetchData(ok)

\* the step in which a fetchData completes sets the four values as one of the
\* outcomes requires and leaves loading false
FetchDataStep ==
    (AwaitCount(eduNetwork', "fetchData") < AwaitCount(eduNetwork, "fetchData")) =>
        /\ ~eduLoading'
        /\ \E ok \in FetchOutcomes :
             [learningLevels |-> learningLevels', courses |-> courses',
              mindGames |-> mindGames', profile |-> profile'] = AfterFetchData(ok)

\* C17: in fetchData a failure of the profile request alone lets learning
\* levels, courses and games be updated and leaves the previous profile; a
\* failure of the config, courses or games request leaves all four values
\* unchanged; loading is false after fetchData has completed.
C17_ProfileFailureIsTolerated ==
    []FetchDataCases /\ [][FetchDataStep]_vars

C17_Witness ==
    /\ frontend = "education"
    /\ ~eduLoading
    /\ Awaited(eduNetwork, "fetchData") = {}
    /\ eduBackend.enrolled = {"c1"}
    /\ courses = CoursesResponse(eduBackend)
    /\ profile # null
    /\ profile.courses_enrolled = 0

\* a code that is empty or holds spaces only
Blank(code) == \A i \in 1..Len(code) : code[i] = " "

\* the refetches of the agency status that applyReferralCode awaits
StatusRefetches(net) ==
    BagCardinality([r \in {q \in BagToSet(net) : q.kind = "status" /\ q.by = "apply"}
                      |-> net[r]])

\* the steps of applyReferralCode: the one that reports the missing code, the
\* one that sends the POST, and the one in which the POST is answered
ApplyReferralCodeStep ==
    /\ Blank(referralCode) =>
         AwaitCount(agencyNetwork', "apply") <= AwaitCount(agencyNetwork, "apply")
    /\ (lastAlert' = "Please enter a referral code" /\ lastAlert' # lastAlert) =>
         /\ Blank(referralCode)
         /\ applyModalVisible' = applyModalVisible
         /\ referralCode' = referralCode
         /\ applying' = applying
         /\ agencyNetwork' = agencyNetwork
    /\ (AwaitCount(agencyNetwork', "apply") > AwaitCount(agencyNetwork, "apply")) =>
         /\ ~Blank(referralCode)
         /\ applying'
         /\ \E r \in Awaited(agencyNetwork', "apply") : r.arg = referralCode
    /\ (AwaitCount(agencyNetwork', "apply") < AwaitCount(agencyNetwork, "apply")) =>
         \/ /\ ~applyModalVisible'
            /\ referralCode' = <<>>
            /\ StatusRefetches(agencyNetwork') = StatusRefetches(agencyNetwork) + 1
            /\ lastAlert' = "Referral code applied successfully!"
         \/ /\ applyModalVisible' = applyModalVisible
            /\ referralCode' = referralCode
            /\ StatusRefetches(agencyNetwork') = StatusRefetches(agencyNetwork)
            /\ agencyBackend' = agencyBackend
            /\ lastAlert' \in {"Not allowed", "Failed to apply referral code"}

\* C18: applyReferralCode with an empty or whitespace-only code sends no
\* request, reports an error and leaves the modal, the input and applying as
\* they are; with any other code it sends the POST, whose success closes the
\* modal, clears the input and refetches the agency status, and whose failure
\* leaves the modal and the input as they are.
C18_ApplyReferralCode ==
    [][ApplyReferralCodeStep]_vars

C18_Witness ==
    /\ frontend = "agency"
    /\ lastAlert = "Please enter a referral code"
    /\ referralCode = <<" ">>
    /\ applyModalVisible
    /\ ~applying
    /\ Awaited(agencyNetwork, "apply") = {}
    /\ agencyBackend.referred_by = <<>>

\* the POSTs of the three mobile handlers: at most one of each in flight
OneMobilePostInFlight ==
    /\ AwaitCount(eduNetwork, "enroll") <= 1
    /\ AwaitCount(eduNetwork, "play") <= 1
    /\ AwaitCount(agencyNetwork, "apply") <= 1

\* C19 as stated: of each form's POST (login, register, donation, enrollment,
\* mind-game play, referral application) at most one is in flight at a time.
C19_OneRequestInFlightPerForm ==
    /\ \A kind \in {"login", "register", "donate"} : InFlight(kind) <= 1
    /\ OneMobilePostInFlight

\* C19 amended: each mounted form has at most one request of its own in flight
\* at a time, the Play Again button included; a page of the web app that was
\* left while its request was in flight and is opened again is a new form,
\* whose busy flag is false, and can send a second POST of the same kind.
C19_OneRequestInFlightPerMountedForm ==
    /\ \A kind \in {"login", "register", "donate"} : LiveBefore(kind) <= 1
    /\ OneMobilePostInFlight

C19_Witness ==
    /\ frontend = "web"
    /\ route = "/donate"
    /\ donateLoading
    /\ InFlight("donate") = 2
    /\ LiveBefore("donate") = 1

====
